---- MODULE Spec2Model ----
(***************************************************************************)
(* Model of the parent portal's lookups (attached_assets/routes.py):       *)
(* get_time, find_inquiry_by_contact_phone, get_hours_balance,             *)
(* get_sessions and the search_student endpoint.                           *)
(*                                                                         *)
(* The program is a single-threaded request/response handler with no       *)
(* state of its own besides the connections it holds on the engine's pool. *)
(* A request is one action: it draws the call's arguments, the rows the    *)
(* external store answers with and the step (if any) at which the store    *)
(* fails, runs the whole handler and records the outcome in `last`.        *)
(* Text is modelled as a sequence of one-character strings, so that        *)
(* strip, lstrip, zero padding are computed rather than assumed.           *)
(***************************************************************************)
EXTENDS Integers, Sequences, FiniteSets, TLC

VARIABLES
    phase,   \* "idle": waiting for a request; "done": a request was handled
    held,    \* connections acquired from the engine and not yet released
    last     \* the request handled last: its arguments and its outcome

vars == <<phase, held, last>>

\* ---------------------------------------------------------------- bounds

\* rows a schedule query answers with
MaxRows == 2
\* connections that may leak before the model stops taking requests
MaxHeld == 2
\* rows of the stored procedure's third result set
MaxExtra == 1

\* ------------------------------------------------------- optional values

None == [tag |-> "None"]
Absent == [tag |-> "absent"]
Str(s) == [tag |-> "str", s |-> s]
Truthy(v) == v.tag = "str" /\ v.s # <<>>

\* ------------------------------------------------------------------ text

DigitText == <<"0", "1", "2", "3", "4", "5", "6", "7", "8", "9">>

\* the character of a decimal digit
Digit(n) == DigitText[n + 1]

\* "%02d" of strftime's %I, %M, %m, %d
Pad2(n) == <<Digit((n \div 10) % 10), Digit(n % 10)>>

\* "%04d" of strftime's %Y
Pad4(n) == <<Digit((n \div 1000) % 10), Digit((n \div 100) % 10)>> \o Pad2(n % 100)

RECURSIVE LStrip(_, _)
\* str.lstrip(chars)
LStrip(s, chars) ==
    IF s # <<>> /\ Head(s) \in chars THEN LStrip(Tail(s), chars) ELSE s

RECURSIVE RStrip(_, _)
RStrip(s, chars) ==
    IF s # <<>> /\ s[Len(s)] \in chars
    THEN RStrip(SubSeq(s, 1, Len(s) - 1), chars) ELSE s

Whitespace == {" ", "\t", "\n"}

\* str.strip()
Strip(s) == RStrip(LStrip(s, Whitespace), Whitespace)

\* ----------------------------------------------------------------- dates

Date(y, m, d) == [y |-> y, m |-> m, d |-> d]

IsLeap(y) == y % 4 = 0 /\ (y % 100 # 0 \/ y % 400 = 0)

DaysInMonth(y, m) ==
    CASE m \in {1, 3, 5, 7, 8, 10, 12} -> 31
      [] m \in {4, 6, 9, 11} -> 30
      [] OTHER -> IF IsLeap(y) THEN 29 ELSE 28

RECURSIVE DaysBeforeMonth(_, _)
DaysBeforeMonth(y, m) ==
    IF m = 1 THEN 0 ELSE DaysBeforeMonth(y, m - 1) + DaysInMonth(y, m - 1)

\* date.toordinal(): 1 for 0001-01-01
ToOrdinal(dt) ==
    LET p == dt.y - 1
    IN  p * 365 + p \div 4 - p \div 100 + p \div 400
          + DaysBeforeMonth(dt.y, dt.m) + dt.d

\* date.weekday(): Monday is 0
WeekdayIndex(dt) == (ToOrdinal(dt) + 6) % 7

DayNames ==
    << <<"M","o","n","d","a","y">>, <<"T","u","e","s","d","a","y">>,
       <<"W","e","d","n","e","s","d","a","y">>, <<"T","h","u","r","s","d","a","y">>,
       <<"F","r","i","d","a","y">>, <<"S","a","t","u","r","d","a","y">>,
       <<"S","u","n","d","a","y">> >>

\* date.strftime("%A")
WeekdayName(dt) == DayNames[WeekdayIndex(dt) + 1]

\* date.strftime("%Y-%m-%d")
FormatDate(dt) == Pad4(dt.y) \o <<"-">> \o Pad2(dt.m) \o <<"-">> \o Pad2(dt.d)

\* date.__lt__
DateLess(a, b) ==
    \/ a.y < b.y
    \/ a.y = b.y /\ a.m < b.m
    \/ a.y = b.y /\ a.m = b.m /\ a.d < b.d

\* ------------------------------------------------- scoped connections

\* `with engine.connect() as conn:` whose body fails or not: the connection is
\* acquired unless connecting itself fails, and the block's exit releases it.
ScopedAcquired(fail) == IF fail = "connect" THEN 0 ELSE 1
ScopedReleased(fail) == ScopedAcquired(fail)

\* -------------------------------------------------------------- get_time

\* A stored tblTimes.Time: a time of day, or text strptime's "%H:%M:%S" rejects
\* (a time with fractional seconds prints as 13:00:00.500000).
Hms(h, m, s) == [tag |-> "hms", h |-> h, m |-> m, s |-> s]
BadTime == [tag |-> "badtime"]
NullTime == [tag |-> "null"]
NoRow == [tag |-> "norow"]

\* str(result.Time): HH:MM:SS, with the fraction a time of day that is not
\* whole seconds prints
TimeText(stored) ==
    IF stored.tag = "hms"
    THEN Pad2(stored.h) \o <<":">> \o Pad2(stored.m) \o <<":">> \o Pad2(stored.s)
    ELSE <<"1", "3", ":", "0", "0", ":", "0", "0", ".", "5", "0", "0", "0", "0", "0">>

TimeDigits == {"0", "1", "2", "3", "4", "5", "6", "7", "8", "9"}

TimeDigit(c) == CHOOSE n \in 0 .. 9 : Digit(n) = c

\* datetime.strptime(text, "%H:%M:%S") on the texts TimeText yields: the fields,
\* or ValueError for text that does not end after the seconds
Strptime(s) ==
    IF /\ Len(s) = 8
       /\ s[3] = ":" /\ s[6] = ":"
       /\ \A i \in {1, 2, 4, 5, 7, 8} : s[i] \in TimeDigits
    THEN LET h == TimeDigit(s[1]) * 10 + TimeDigit(s[2])
             m == TimeDigit(s[4]) * 10 + TimeDigit(s[5])
             sec == TimeDigit(s[7]) * 10 + TimeDigit(s[8])
         IN  IF h <= 23 /\ m <= 59 /\ sec <= 61
             THEN [ok |-> TRUE, time |-> Hms(h, m, sec)]
             ELSE [ok |-> FALSE, time |-> Hms(0, 0, 0)]
    ELSE [ok |-> FALSE, time |-> Hms(0, 0, 0)]

\* time_obj.strftime("%I:%M %p")
Format12(t) ==
    LET h12 == IF t.h % 12 = 0 THEN 12 ELSE t.h % 12
        mer == IF t.h < 12 THEN <<"A", "M">> ELSE <<"P", "M">>
    IN  Pad2(h12) \o <<":">> \o Pad2(t.m) \o <<" ">> \o mer

\* line 23 without the lstrip("0")
FormatTimeUnstripped(t) == Format12(t)

\* .lstrip("0")
FormatTime(t) == LStrip(Format12(t), {"0"})

\* get_time(time_id) when tblTimes answers `stored` for the id and the store
\* fails at `fail`: [raised, value, acquired, released]
get_time(stored, fail) ==
    LET acq == ScopedAcquired(fail)
        rel == ScopedReleased(fail)
        parsed == Strptime(TimeText(stored))
    IN  IF fail \in {"connect", "execute"}
        THEN [raised |-> TRUE, value |-> Absent, acquired |-> acq, released |-> rel]
        ELSE IF stored.tag \in {"norow", "null"}
        THEN [raised |-> FALSE, value |-> None, acquired |-> acq, released |-> rel]
        ELSE IF ~parsed.ok
        THEN [raised |-> TRUE, value |-> Absent, acquired |-> acq, released |-> rel]
        ELSE [raised |-> FALSE, value |-> Str(FormatTime(parsed.time)),
              acquired |-> acq, released |-> rel]

ScopedFails == {"none", "connect", "execute"}

Hours == 0 .. 23
Minutes == 0 .. 59
Seconds == {0, 30}

StoredTimes ==
    {Hms(h, m, s) : h \in Hours, m \in Minutes, s \in Seconds}
        \cup {BadTime, NullTime, NoRow}

\* ---------------------------------------------------------- get_sessions

\* tblTimes as the schedule rows' TimeIDs see it: slot 1 is 13:00:00, slot 2 is
\* 09:30:00, slot 3 holds a time "%H:%M:%S" rejects, any other id has no row.
TblTimes(id) ==
    CASE id = 1 -> Hms(13, 0, 0)
      [] id = 2 -> Hms(9, 30, 0)
      [] id = 3 -> BadTime
      [] OTHER -> NoRow

\* A row's ScheduleDate as the driver hands it over: a datetime, text, a plain
\* date (neither a datetime nor text) or NULL.
SchedDatetime(dt) == [kind |-> "datetime", date |-> dt]
SchedText(s) == [kind |-> "str", text |-> s]
SchedDateObj(dt) == [kind |-> "date", date |-> dt]
SchedNull == [kind |-> "null"]

DigitChars == {"0", "1", "2", "3", "4", "5", "6", "7", "8", "9"}

DigitVal(c) == CHOOSE n \in 0 .. 9 : Digit(n) = c

\* dateutil's parse(text).date() on the texts the model stores: YYYY-MM-DD
\* parses to that date when it is a date of the calendar, anything else raises.
ParseDate(s) ==
    IF /\ Len(s) = 10
       /\ s[5] = "-" /\ s[8] = "-"
       /\ \A i \in {1, 2, 3, 4, 6, 7, 9, 10} : s[i] \in DigitChars
    THEN LET y == DigitVal(s[1]) * 1000 + DigitVal(s[2]) * 100
                    + DigitVal(s[3]) * 10 + DigitVal(s[4])
             m == DigitVal(s[6]) * 10 + DigitVal(s[7])
             d == DigitVal(s[9]) * 10 + DigitVal(s[10])
         IN  IF y >= 1 /\ m \in 1 .. 12 /\ d >= 1 /\ d <= DaysInMonth(y, m)
             THEN [ok |-> TRUE, date |-> Date(y, m, d)]
             ELSE [ok |-> FALSE, date |-> Date(0, 0, 0)]
    ELSE [ok |-> FALSE, date |-> Date(0, 0, 0)]

\* lines 149-157: the row's date, or no date (the row is skipped)
NormalizeDate(sched) ==
    IF sched.kind = "datetime" THEN [ok |-> TRUE, date |-> sched.date]
    ELSE IF sched.kind = "str" THEN ParseDate(sched.text)
    ELSE [ok |-> FALSE, date |-> Date(0, 0, 0)]

\* line 160
InCurrentMonth(dt, today) == dt.m = today.m /\ dt.y = today.y

\* lines 165-166 without the strip(): a label of spaces is kept
DayOrWeekdayUnstripped(day, dt) ==
    IF ~Truthy(day) THEN Str(WeekdayName(dt)) ELSE day

\* lines 165-166
DayOrWeekday(day, dt) ==
    IF ~Truthy(day) \/ Strip(day.s) = <<>> THEN Str(WeekdayName(dt)) ELSE day

\* lines 169-174
Categorize(dt, today) == IF DateLess(dt, today) THEN "recent" ELSE "upcoming"

Unknown == Str(<<"U", "n", "k", "n", "o", "w", "n">>)

\* The loop body (lines 139-178) for the row retrieved at position rid, given
\* what get_time answered (t) and the row's normalised date (nd): the list the
\* row is appended to ("recent", "upcoming", or "skip" for a continue) and the
\* session as the loop leaves it.
RowPass(row, rid, today, t, nd) ==
    LET base == [rid |-> rid, TimeID |-> row.TimeID, ScheduleDate |-> row.ScheduleDate,
                 Day |-> row.Day, Time |-> Absent, FormattedDate |-> Absent,
                 category |-> "none"]
        timed == [base EXCEPT !.Time = t.value]
    IN  IF t.raised
        THEN \* lines 176-178
             [bucket |-> "upcoming", session |-> [base EXCEPT !.category = "upcoming"],
              acquired |-> t.acquired, released |-> t.released]
        ELSE IF ~nd.ok \/ ~InCurrentMonth(nd.date, today)
        THEN [bucket |-> "skip", session |-> timed,
              acquired |-> t.acquired, released |-> t.released]
        ELSE [bucket |-> Categorize(nd.date, today),
              session |-> [timed EXCEPT !.FormattedDate = Str(FormatDate(nd.date)),
                                        !.Day = DayOrWeekday(row.Day, nd.date),
                                        !.category = Categorize(nd.date, today)],
              acquired |-> t.acquired, released |-> t.released]

\* One pass of the loop over the row retrieved at position rid: lines 141-142
\* and 146-157 feed the rest of the body.
ProcessRow(row, rid, today) ==
    RowPass(row, rid, today,
            IF row.TimeID # 0
            THEN get_time(TblTimes(row.TimeID), "none")
            ELSE [raised |-> FALSE, value |-> Unknown, acquired |-> 0, released |-> 0],
            NormalizeDate(row.ScheduleDate))

\* the loop over all_sessions (line 138): each row's pass, in retrieval order
Passes(rows, today) == [i \in 1 .. Len(rows) |-> ProcessRow(rows[i], i, today)]

RECURSIVE Appended(_, _, _)
\* the sessions the passes i..Len(ps) appended to list `bucket`, in that order
Appended(ps, bucket, i) ==
    IF i > Len(ps) THEN <<>>
    ELSE (IF ps[i].bucket = bucket THEN <<ps[i].session>> ELSE <<>>)
             \o Appended(ps, bucket, i + 1)

RECURSIVE SumOver(_, _, _)
SumOver(ps, fld, i) ==
    IF i > Len(ps) THEN 0 ELSE ps[i][fld] + SumOver(ps, fld, i + 1)

\* line 181 with the two lists swapped
CombineUpcomingFirst(recent_sessions, upcoming_sessions) ==
    upcoming_sessions \o recent_sessions

\* line 181
Combine(recent_sessions, upcoming_sessions) == recent_sessions \o upcoming_sessions

\* lines 135-136 and 181: the two lists the passes filled, combined
Collected(ps, fail) ==
    [raised |-> FALSE,
     value |-> Combine(Appended(ps, "recent", 1), Appended(ps, "upcoming", 1)),
     acquired |-> ScopedAcquired(fail) + SumOver(ps, "acquired", 1),
     released |-> ScopedReleased(fail) + SumOver(ps, "released", 1)]

\* get_sessions(student_id) when the schedule query answers `rows`, the clock
\* reads `today` and the store fails the query at `fail`
get_sessions(rows, today, fail) ==
    IF fail \in {"connect", "execute"}
    THEN [raised |-> TRUE, value |-> <<>>,
          acquired |-> ScopedAcquired(fail), released |-> ScopedReleased(fail)]
    ELSE Collected(Passes(rows, today), fail)

Todays == {Date(2025, 8, 16), Date(2025, 8, 17)}

SchedDates ==
    {Date(2025, 8, 15), Date(2025, 8, 16), Date(2025, 8, 17),
     Date(2025, 7, 16), Date(2024, 8, 16)}

SchedValues ==
    {SchedDatetime(dt) : dt \in SchedDates}
        \cup {SchedText(FormatDate(Date(2025, 8, 15))), SchedText(FormatDate(Date(2025, 7, 16))),
              SchedText(<<"T", "B", "D">>), SchedDateObj(Date(2025, 8, 16)), SchedNull}

DayValues ==
    {None, Str(<<>>), Str(<<" ", " ">>), Str(<<"M", "o", "n">>)}

SessionTimeIDs == {0, 1, 3}

RowValues ==
    [TimeID : SessionTimeIDs, ScheduleDate : SchedValues, Day : DayValues]

\* the batches of n rows
RowSeqs(n) == [1 .. n -> RowValues]

\* ------------------------------------------------------ get_hours_balance

\* A column of the balance row: not in the row, NULL, text that is no number,
\* or a number of hours.
Missing == [tag |-> "missing"]
Null == [tag |-> "null"]
Text == [tag |-> "text"]
Num(n) == [tag |-> "num", n |-> n]

BalanceKeys == {"Purchases", "AttendancePresent", "UnexcusedAbsences", "MiscAdjustments"}

\* balance_data = {}
EmptyBalance == [k \in BalanceKeys |-> Missing]

\* balance_data.get(key): None for a key the dict lacks
DictGet(balance_data, key) ==
    IF balance_data[key].tag = "missing" THEN Null ELSE balance_data[key]

\* lines 85-90
safe_float(val) ==
    IF val.tag = "null" THEN 0
    ELSE IF val.tag = "num" THEN val.n
    ELSE 0   \* float() raised ValueError or TypeError

\* lines 93-98 with the absences subtracted instead of added
RemainingLessAbsences(balance_data) ==
    safe_float(DictGet(balance_data, "Purchases"))
        + safe_float(DictGet(balance_data, "AttendancePresent"))
        - safe_float(DictGet(balance_data, "UnexcusedAbsences"))
        + safe_float(DictGet(balance_data, "MiscAdjustments"))

\* lines 93-98
Remaining(balance_data) ==
    LET purchases == safe_float(DictGet(balance_data, "Purchases"))
        attendance == safe_float(DictGet(balance_data, "AttendancePresent"))
        absences == safe_float(DictGet(balance_data, "UnexcusedAbsences"))
        adjustments == safe_float(DictGet(balance_data, "MiscAdjustments"))
    IN  purchases + attendance + absences + adjustments

\* lines 107-111
DefaultBalance == [balance |-> EmptyBalance, extra |-> 0, remaining_hours |-> 0]

\* The steps of get_hours_balance at which the store can fail.
BalanceFails ==
    {"none", "raw_connection", "cursor", "callproc", "nextset1", "fetchone",
     "nextset2", "fetchall", "cursor_close", "conn_close"}

\* the failures the try block (lines 63-104) catches
InTry == {"cursor", "callproc", "nextset1", "fetchone", "nextset2", "fetchall"}

\* lines 112-116: what the finally block does once the try block is left.
\* cursor.close() runs when a cursor was made; conn.close() runs only after it.
FinallyRaises(fail) == fail \in {"cursor_close", "conn_close"}
FinallyReleased(fail) == IF fail = "cursor_close" THEN 0 ELSE 1

\* get_hours_balance(inquiry_id) when the procedure answers `answer`:
\* [nsets, row, extra] = the number of result sets, the first row of the second
\* one (or NoRow) and the number of rows of the third. `exhausted` is what the
\* driver does on a fetch after nextset() found no further set: "raise", or
\* "empty" (no row, no description). The store fails at `fail`.
get_hours_balance(answer, exhausted, fail) ==
    IF fail = "raw_connection"
    THEN \* line 61 is outside the try block
         [raised |-> TRUE, value |-> DefaultBalance, acquired |-> 0, released |-> 0]
    ELSE LET fetchRaises ==
                 answer.nsets < 3 /\ exhausted = "raise"
             caught == fail \in InTry \/ fetchRaises
             balance_data ==
                 IF answer.nsets >= 2 /\ answer.row # NoRow THEN answer.row
                 ELSE EmptyBalance
             extra_data == IF answer.nsets >= 3 THEN answer.extra ELSE 0
             result ==
                 IF caught THEN DefaultBalance
                 ELSE [balance |-> balance_data, extra |-> extra_data,
                       remaining_hours |-> Remaining(balance_data)]
         IN  [raised |-> FinallyRaises(fail), value |-> result,
              acquired |-> 1, released |-> FinallyReleased(fail)]

PurchasesValues == {Missing, Null, Text, Num(0), Num(40)}
AttendanceValues == {Missing, Null, Text, Num(-5)}
AbsencesValues == {Missing, Null, Text, Num(-2), Num(2)}
AdjustmentsValues == {Missing, Null, Text, Num(0), Num(3)}

BalanceRows ==
    {[k \in BalanceKeys |->
         CASE k = "Purchases" -> p [] k = "AttendancePresent" -> a
           [] k = "UnexcusedAbsences" -> u [] OTHER -> m] :
       p \in PurchasesValues, a \in AttendanceValues,
       u \in AbsencesValues, m \in AdjustmentsValues}

\* what the stored procedure can answer
ProcAnswers ==
    {[nsets |-> 1, row |-> NoRow, extra |-> 0]}
        \cup {[nsets |-> 2, row |-> r, extra |-> 0] : r \in BalanceRows \cup {NoRow}}
        \cup {[nsets |-> 3, row |-> r, extra |-> e] :
                 r \in BalanceRows \cup {NoRow}, e \in 0 .. MaxExtra}

\* a call that fails before the procedure ran retrieves nothing
AnswersAt(fail) ==
    IF fail \in {"raw_connection", "cursor", "callproc"}
    THEN {[nsets |-> 1, row |-> NoRow, extra |-> 0]}
    ELSE ProcAnswers

Exhausted == {"raise", "empty"}

\* ------------------------------------------ find_inquiry_by_contact_phone

\* lines 32-36: the rows of tblInquiry the WHERE clause keeps
ParentRows(tblInquiry, contact_num) ==
    {r \in tblInquiry : r.ContactPhone = contact_num}

\* lines 47-52 without the WHERE clause
StudentRowsOfAll(tblstudents, inquiry_id) ==
    [i \in 1 .. Len(tblstudents) |->
        [ID |-> tblstudents[i].ID, FirstName |-> tblstudents[i].FirstName,
         LastName |-> tblstudents[i].LastName]]

\* lines 47-52: the rows of tblstudents the WHERE clause keeps, in table order,
\* with the columns the SELECT names
StudentRows(tblstudents, inquiry_id) ==
    LET kept == SelectSeq(tblstudents, LAMBDA st : st.InquiryID = inquiry_id)
    IN  [i \in 1 .. Len(kept) |->
            [ID |-> kept[i].ID, FirstName |-> kept[i].FirstName,
             LastName |-> kept[i].LastName]]

ContactFails == {"none", "connect", "execute_parent", "execute_students"}

\* find_inquiry_by_contact_phone(contact_num): parent_result is the row
\* fetchone() hands over (NoRow when the query kept none).
find_inquiry_by_contact_phone(parent_result, tblstudents, fail) ==
    LET acq == ScopedAcquired(fail)
        rel == ScopedReleased(fail)
    IN  IF fail \in {"connect", "execute_parent"}
        THEN [raised |-> TRUE, found |-> FALSE, value |-> None,
              acquired |-> acq, released |-> rel]
        ELSE IF parent_result = NoRow
        THEN [raised |-> FALSE, found |-> FALSE, value |-> None,
              acquired |-> acq, released |-> rel]
        ELSE IF fail = "execute_students"
        THEN [raised |-> TRUE, found |-> FALSE, value |-> None,
              acquired |-> acq, released |-> rel]
        ELSE [raised |-> FALSE, found |-> TRUE,
              value |-> [inquiry |-> parent_result,
                         students |-> StudentRows(tblstudents, parent_result.InquiryID)],
              acquired |-> acq, released |-> rel]

Phones == {"555-0001", "555-0002"}
AskedPhones == Phones \cup {"555-0009"}
InquiryIDs == {1, 2}
StudentIDs == {1, 2, 3}

InquiryRow(id, phone) == [InquiryID |-> id, Email |-> "parent@example.org", ContactPhone |-> phone]

\* tblInquiry: a set of rows with distinct ids
InquiryTables ==
    UNION {{{InquiryRow(id, f[id]) : id \in ids} : f \in [ids -> Phones]} :
              ids \in SUBSET InquiryIDs}

StudentRow(id, inq) == [ID |-> id, FirstName |-> "F", LastName |-> "L", InquiryID |-> inq]

RECURSIVE StudentTablesFrom(_)
\* tblstudents: rows with distinct ids, in id order; an id is absent or belongs
\* to one inquiry
StudentTablesFrom(id) ==
    IF id \notin StudentIDs THEN {<<>>}
    ELSE LET rest == StudentTablesFrom(id + 1)
         IN  rest \cup {<<StudentRow(id, inq)>> \o t : inq \in InquiryIDs, t \in rest}

StudentTables == StudentTablesFrom(1)

\* what fetchone() can hand over for the parent query
FirstRows(tblInquiry, contact_num) ==
    IF ParentRows(tblInquiry, contact_num) = {} THEN {NoRow}
    ELSE ParentRows(tblInquiry, contact_num)

\* -------------------------------------------------------- search_student

Arg(s) == [tag |-> "str", s |-> s]

\* `not contact_num`: the parameter is absent or empty
NotGiven(contact_num) == contact_num.tag = "None" \/ contact_num.s = ""

ErrorResponse(status, message, acq, rel) ==
    [raised |-> FALSE, status |-> status, error |-> message, success |-> FALSE,
     inquiry_id |-> 0, parent |-> DefaultBalance, students |-> <<>>,
     acquired |-> acq, released |-> rel]

\* an exception leaves the view function
Unhandled(acq, rel) ==
    [raised |-> TRUE, status |-> 500, error |-> "", success |-> FALSE,
     inquiry_id |-> 0, parent |-> DefaultBalance, students |-> <<>>,
     acquired |-> acq, released |-> rel]

\* lines 222-224: each student with its sessions attached
WithSessions(students, sessions) ==
    [i \in 1 .. Len(students) |->
        [ID |-> students[i].ID, FirstName |-> students[i].FirstName,
         LastName |-> students[i].LastName, sessions |-> sessions]]

\* lines 214-231, given the students found, the balance lookup's outcome b
\* and the outcome g of get_sessions for a student
SearchAnswer(inquiry_id, students, sfail, b, g, a1, r1) ==
    IF sfail # "none" THEN Unhandled(a1, r1)
    ELSE IF students = <<>>
    THEN ErrorResponse(404, "No students found for this parent", a1, r1)
    ELSE IF b.raised THEN Unhandled(a1 + b.acquired, r1 + b.released)
    ELSE [raised |-> FALSE, status |-> 200, error |-> "", success |-> TRUE,
          inquiry_id |-> inquiry_id, parent |-> b.value,
          students |-> WithSessions(students, g.value),
          acquired |-> a1 + b.acquired + Len(students) * g.acquired,
          released |-> r1 + b.released + Len(students) * g.released]

\* lines 204-231, once inquiry_id is known
SearchRest(inquiry_id, tblstudents, env, acq, rel) ==
    SearchAnswer(inquiry_id, StudentRows(tblstudents, inquiry_id), env.sfail,
                 get_hours_balance(env.answer, env.exhausted, env.bfail),
                 get_sessions(env.rows, env.today, "none"),
                 acq + ScopedAcquired(env.sfail), rel + ScopedReleased(env.sfail))

\* search_student(): lines 192-231
search_student(contact_num, parent_result, tblstudents, fail, env) ==
    IF NotGiven(contact_num)
    THEN ErrorResponse(400, "Missing contact_num", 0, 0)
    ELSE LET f == find_inquiry_by_contact_phone(parent_result, tblstudents, fail)
             inquiry == f.value
         IN  IF f.raised THEN Unhandled(f.acquired, f.released)
             ELSE IF ~f.found
             THEN ErrorResponse(404, "Parent not found", f.acquired, f.released)
             ELSE IF "ID" \notin DOMAIN inquiry
             THEN \* line 202: inquiry["ID"] raises KeyError
                  Unhandled(f.acquired, f.released)
             ELSE SearchRest(inquiry["ID"], tblstudents, env, f.acquired, f.released)

ContactArgs == {None, Arg("")} \cup {Arg(ph) : ph \in AskedPhones}

\* what the store answers to the queries search_student makes after the
\* contact lookup
SearchEnvs ==
    [sfail : ScopedFails,
     answer : {[nsets |-> 3,
                row |-> [k \in BalanceKeys |-> IF k = "Purchases" THEN Num(40) ELSE Num(0)],
                extra |-> 0]},
     exhausted : {"empty"},
     bfail : {"none", "cursor_close"},
     rows : {<<[TimeID |-> 1, ScheduleDate |-> SchedDatetime(Date(2025, 8, 16)),
                     Day |-> None]>>},
     today : {Date(2025, 8, 16)}]

\* ----------------------------------------------------------- the requests

Init ==
    /\ phase = "idle"
    /\ held = 0
    /\ last = [op |-> "none"]

\* a call of get_time
GetTime ==
    /\ phase = "idle"
    /\ held < MaxHeld
    /\ \E fail \in ScopedFails :
       \E stored \in (IF fail = "none" THEN StoredTimes ELSE {NoRow}) :
         \* a query that fails retrieves no row
         LET r == get_time(stored, fail)
         IN  /\ last' = [op |-> "get_time", stored |-> stored, fail |-> fail,
                         raised |-> r.raised, value |-> r.value]
             /\ held' = held + r.acquired - r.released
    /\ phase' = "done"

\* a call of find_inquiry_by_contact_phone (the login page)
FindInquiry ==
    /\ phase = "idle"
    /\ held < MaxHeld
    /\ \E contact_num \in AskedPhones, tblInquiry \in InquiryTables,
          tblstudents \in StudentTables, fail \in ContactFails :
       \E parent_result \in FirstRows(tblInquiry, contact_num) :
         LET r == find_inquiry_by_contact_phone(parent_result, tblstudents, fail)
         IN  /\ last' = [op |-> "find_inquiry", contact_num |-> contact_num,
                         tblInquiry |-> tblInquiry, tblstudents |-> tblstudents,
                         fail |-> fail, raised |-> r.raised, found |-> r.found,
                         value |-> r.value]
             /\ held' = held + r.acquired - r.released
    /\ phase' = "done"

\* a call of get_hours_balance (the get_balance endpoint)
GetHoursBalance ==
    /\ phase = "idle"
    /\ held < MaxHeld
    /\ \E fail \in BalanceFails, exhausted \in Exhausted :
       \E answer \in AnswersAt(fail) :
         LET r == get_hours_balance(answer, exhausted, fail)
         IN  /\ last' = [op |-> "get_hours_balance", answer |-> answer,
                         exhausted |-> exhausted, fail |-> fail,
                         raised |-> r.raised, value |-> r.value]
             /\ held' = held + r.acquired - r.released
    /\ phase' = "done"

\* a request to /api/search_student
SearchStudent ==
    /\ phase = "idle"
    /\ held < MaxHeld
    /\ \E contact_num \in ContactArgs, tblInquiry \in InquiryTables,
          tblstudents \in StudentTables, fail \in ContactFails, env \in SearchEnvs :
       \E parent_result \in (IF NotGiven(contact_num) THEN {NoRow}
                             ELSE FirstRows(tblInquiry, contact_num.s)) :
         LET r == search_student(contact_num, parent_result, tblstudents, fail, env)
         IN  /\ last' = [op |-> "search_student", contact_num |-> contact_num,
                         tblInquiry |-> tblInquiry, tblstudents |-> tblstudents,
                         fail |-> fail, raised |-> r.raised, status |-> r.status,
                         error |-> r.error, success |-> r.success,
                         inquiry_id |-> r.inquiry_id, parent |-> r.parent,
                         students |-> r.students]
             /\ held' = held + r.acquired - r.released
    /\ phase' = "done"

\* a call of get_sessions (the get_schedule endpoint)
GetSessions ==
    /\ phase = "idle"
    /\ held < MaxHeld
    /\ \E today \in Todays, fail \in ScopedFails :
       \E n \in (IF fail = "none" THEN 0 .. MaxRows ELSE {0}) :
       \E rows \in RowSeqs(n) :
         \* a query that fails retrieves no rows
         LET r == get_sessions(rows, today, fail)
         IN  /\ last' = [op |-> "get_sessions", rows |-> rows, today |-> today,
                         fail |-> fail, raised |-> r.raised, value |-> r.value]
             /\ held' = held + r.acquired - r.released
    /\ phase' = "done"

\* the handler has answered; the server waits for the next request
Respond ==
    /\ phase = "done"
    /\ phase' = "idle"
    /\ last' = [op |-> "none"]
    /\ UNCHANGED held

Next ==
    \/ GetTime
    \/ FindInquiry
    \/ GetHoursBalance
    \/ GetSessions
    \/ SearchStudent
    \/ Respond

Spec == Init /\ [][Next]_vars

\* the schedule endpoints alone
NextSessions == GetSessions \/ Respond

SpecSessions == Init /\ [][NextSessions]_vars

\* the balance endpoint alone
NextBalance == GetHoursBalance \/ Respond

SpecBalance == Init /\ [][NextBalance]_vars

\* the time-label lookup alone
NextTime == GetTime \/ Respond

SpecTime == Init /\ [][NextTime]_vars

\* the contact lookup alone
NextContact == FindInquiry \/ Respond

SpecContact == Init /\ [][NextContact]_vars

\* ------------------------------------------------------------ properties

\* A row's schedule date as the row states it, whatever its representation.
RowDate(sched) ==
    IF sched.kind \in {"datetime", "date"} THEN [ok |-> TRUE, date |-> sched.date]
    ELSE IF sched.kind = "str" THEN ParseDate(sched.text)
    ELSE [ok |-> FALSE, date |-> Date(0, 0, 0)]

Returned == last.op = "get_sessions" /\ ~last.raised

\* the positions of the output that hold the row retrieved at position i
OutputOf(i) == {k \in 1 .. Len(last.value) : last.value[k].rid = i}

\* C1: get_sessions returns no session whose schedule date falls outside the
\* current calendar month and year, whatever happens while the row is
\* processed, a failure of get_time for that row included.
C1_NoSessionOutsideMonth ==
    Returned =>
        \A k \in 1 .. Len(last.value) :
            LET rd == RowDate(last.value[k].ScheduleDate)
            IN  rd.ok => InCurrentMonth(rd.date, last.today)

\* C2: every retrieved session whose schedule date is a valid date of the
\* current month and year is in the output exactly once, "recent" if its date
\* is strictly before today and "upcoming" otherwise.
C2_InMonthIncludedOnceAndCategorised ==
    Returned =>
        \A i \in 1 .. Len(last.rows) :
            LET rd == NormalizeDate(last.rows[i].ScheduleDate)
            IN  rd.ok /\ InCurrentMonth(rd.date, last.today) =>
                    /\ Cardinality(OutputOf(i)) = 1
                    /\ \A k \in OutputOf(i) :
                           last.value[k].category =
                               IF DateLess(rd.date, last.today) THEN "recent" ELSE "upcoming"

\* the balance lookup was asked for and the store failed at some step
BalanceFailed ==
    /\ last.op = "get_hours_balance"
    /\ \/ last.fail # "none"
       \/ last.answer.nsets < 3 /\ last.exhausted = "raise"

\* C3: get_hours_balance never raises to its caller: when any step fails
\* (acquiring the connection, the procedure call, advancing or reading a
\* result set, closing the cursor or the connection) it returns
\* {balance: {}, extra: [], remaining_hours: 0.0}.
C3_BalanceNeverRaises ==
    last.op = "get_hours_balance" =>
        /\ ~last.raised
        /\ BalanceFailed => last.value = DefaultBalance

Unparseable(sched) == sched.kind = "str" /\ ~ParseDate(sched.text).ok

\* C4: a retrieved session whose schedule date text cannot be parsed is in
\* neither part of the output, and the other rows of the batch are still
\* processed and returned.
C4_UnparseableDropped ==
    last.op = "get_sessions" /\ last.fail = "none" =>
        /\ ~last.raised
        /\ \A i \in 1 .. Len(last.rows) :
               IF Unparseable(last.rows[i].ScheduleDate)
               THEN OutputOf(i) = {}
               ELSE LET nd == NormalizeDate(last.rows[i].ScheduleDate)
                    IN  nd.ok /\ InCurrentMonth(nd.date, last.today) => OutputOf(i) # {}

\* C5: the output is every "recent" session in retrieval order followed by
\* every "upcoming" session in retrieval order: no "upcoming" entry precedes a
\* "recent" one, and within a category retrieval order is kept.
C5_RecentThenUpcomingInRetrievalOrder ==
    Returned =>
        /\ \A k \in 1 .. Len(last.value) : last.value[k].category \in {"recent", "upcoming"}
        /\ \A j, k \in 1 .. Len(last.value) :
               j < k =>
                   /\ ~(last.value[j].category = "upcoming" /\ last.value[k].category = "recent")
                   /\ last.value[j].category = last.value[k].category =>
                          last.value[j].rid < last.value[k].rid

\* C5's case: the row retrieved second is returned first, because it is
\* recent and the row retrieved first is upcoming.
C5_Witness ==
    /\ Returned
    /\ Len(last.value) = 2
    /\ last.value[1].rid = 2 /\ last.value[1].category = "recent"
    /\ last.value[2].rid = 1 /\ last.value[2].category = "upcoming"

\* the balance row the procedure's second result set starts with, as a dict
StoredBalance ==
    IF last.answer.nsets >= 2 /\ last.answer.row # NoRow THEN last.answer.row
    ELSE EmptyBalance

\* a stored column's contribution: its number, 0 when missing, null or no number
Contribution(v) == IF v.tag = "num" THEN v.n ELSE 0

ExampleRow ==
    [k \in BalanceKeys |->
        CASE k = "Purchases" -> Num(40) [] k = "AttendancePresent" -> Num(-5)
          [] k = "UnexcusedAbsences" -> Num(-2) [] OTHER -> Num(0)]

\* C6: when the balance computation succeeds, remaining_hours is Purchases +
\* AttendancePresent + UnexcusedAbsences + MiscAdjustments of the balance row,
\* each with its sign as stored and 0 when missing, null or non-numeric;
\* 40, -5, -2, 0 gives 33 and an empty balance row gives 0.
C6_RemainingIsSignedSum ==
    last.op = "get_hours_balance" /\ ~BalanceFailed =>
        /\ ~last.raised
        /\ last.value.remaining_hours =
               Contribution(StoredBalance["Purchases"])
                   + Contribution(StoredBalance["AttendancePresent"])
                   + Contribution(StoredBalance["UnexcusedAbsences"])
                   + Contribution(StoredBalance["MiscAdjustments"])
        /\ StoredBalance = ExampleRow => last.value.remaining_hours = 33
        /\ StoredBalance = EmptyBalance => last.value.remaining_hours = 0

\* C6's case: the lookup succeeded on the row 40, -5, -2, 0 and answered 33.
C6_Witness ==
    /\ last.op = "get_hours_balance" /\ ~BalanceFailed
    /\ StoredBalance = ExampleRow
    /\ last.value.remaining_hours = 33

\* the ids of the students the lookup returned
ReturnedStudentIDs == {last.value.students[i].ID : i \in 1 .. Len(last.value.students)}

\* the ids of the stored students that belong to inquiry id
StudentIDsOf(id) ==
    {last.tblstudents[i].ID :
        i \in {j \in 1 .. Len(last.tblstudents) : last.tblstudents[j].InquiryID = id}}

\* C7: find_inquiry_by_contact_phone returns None exactly when no inquiry's
\* stored contact phone equals the given phone, never an empty-list success;
\* when an inquiry matches it returns that inquiry with exactly the students
\* whose inquiry identifier is the matched inquiry's (possibly none).
C7_NotFoundIffNoMatch ==
    last.op = "find_inquiry" /\ ~last.raised =>
        /\ (last.value = None) <=>
               ~\E r \in last.tblInquiry : r.ContactPhone = last.contact_num
        /\ last.value # None =>
               /\ last.value.inquiry \in last.tblInquiry
               /\ last.value.inquiry.ContactPhone = last.contact_num
               /\ ReturnedStudentIDs = StudentIDsOf(last.value.inquiry.InquiryID)
               /\ Len(last.value.students) = Cardinality(ReturnedStudentIDs)

\* C7's case: a phone matched, the inquiry has a student and the table also
\* holds a student of another inquiry, which is not returned.
C7_Witness ==
    /\ last.op = "find_inquiry" /\ ~last.raised
    /\ last.value # None
    /\ Len(last.value.students) >= 1
    /\ Len(last.tblstudents) > Len(last.value.students)

\* C8: every lookup releases every connection it acquired by the time it
\* returns or fails: after any sequence of lookups the number of connections
\* still held is zero.
C8_NoConnectionHeld == held = 0

HasMatch == \E r \in last.tblInquiry : r.ContactPhone = last.contact_num.s

MatchHasStudents ==
    \E r \in last.tblInquiry :
        /\ r.ContactPhone = last.contact_num.s
        /\ \E i \in 1 .. Len(last.tblstudents) : last.tblstudents[i].InquiryID = r.InquiryID

\* C9: search_student answers 400 when contact_num is missing, 404 "Parent not
\* found" when the phone matches no inquiry, 404 "No students found" when the
\* matched inquiry has no students, and otherwise a success carrying the
\* inquiry id, the balance and the inquiry's students with their sessions.
C9_SearchStudentOutcomes ==
    last.op = "search_student" /\ last.fail = "none" =>
        IF NotGiven(last.contact_num)
        THEN ~last.raised /\ last.status = 400
        ELSE IF ~HasMatch
        THEN ~last.raised /\ last.status = 404 /\ last.error = "Parent not found"
        ELSE IF ~MatchHasStudents
        THEN /\ ~last.raised /\ last.status = 404
             /\ last.error = "No students found for this parent"
        ELSE /\ ~last.raised /\ last.success /\ last.status = 200
             /\ last.students # <<>>

\* the weekday names of the dates the schedule rows use
CalendarWeekday(dt) ==
    CASE dt = Date(2025, 8, 15) -> <<"F","r","i","d","a","y">>
      [] dt = Date(2025, 8, 16) -> <<"S","a","t","u","r","d","a","y">>
      [] dt = Date(2025, 8, 17) -> <<"S","u","n","d","a","y">>
      [] dt = Date(2025, 7, 16) -> <<"W","e","d","n","e","s","d","a","y">>
      [] dt = Date(2024, 8, 16) -> <<"F","r","i","d","a","y">>

\* a stored day label that is missing, empty or only whitespace
BlankLabel(day) ==
    day = None \/ (day.tag = "str" /\ \A i \in 1 .. Len(day.s) : day.s[i] \in Whitespace)

\* C10: for every session get_sessions includes by its date, a stored day
\* label that is missing, empty or only whitespace is replaced by the weekday
\* name of the schedule date, and a non-blank one is returned unchanged.
C10_BlankDayBecomesWeekday ==
    Returned =>
        \A k \in 1 .. Len(last.value) :
            LET s == last.value[k]
                stored == last.rows[s.rid].Day
            IN  s.FormattedDate # Absent =>
                    s.Day = IF BlankLabel(stored)
                            THEN Str(CalendarWeekday(RowDate(s.ScheduleDate).date))
                            ELSE stored

\* C10's case: a row whose day label is two spaces is returned as Saturday,
\* next to a row whose label "Mon" is kept.
C10_Witness ==
    /\ Returned
    /\ \E k \in 1 .. Len(last.value) :
           /\ last.rows[last.value[k].rid].Day = Str(<<" ", " ">>)
           /\ last.value[k].Day = Str(<<"S","a","t","u","r","d","a","y">>)
    /\ \E k \in 1 .. Len(last.value) :
           /\ last.value[k].FormattedDate # Absent
           /\ last.value[k].Day = Str(<<"M", "o", "n">>)

\* the hour of a 12-hour label, written out for each hour of the day
HourLabel(h) ==
    CASE h = 0 -> <<"1", "2">>
      [] h \in 1 .. 9 -> <<Digit(h)>>
      [] h = 10 -> <<"1", "0">>
      [] h = 11 -> <<"1", "1">>
      [] h = 12 -> <<"1", "2">>
      [] h \in 13 .. 21 -> <<Digit(h - 12)>>
      [] h = 22 -> <<"1", "0">>
      [] h = 23 -> <<"1", "1">>

MeridiemLabel(h) == IF h <= 11 THEN <<"A", "M">> ELSE <<"P", "M">>

\* C11: for every stored time HH:MM:SS with HH in 00..23 and MM in 00..59,
\* get_time returns the 12-hour label with meridiem and without the hour's
\* leading zero: 0 is 12 AM, 1..11 are AM, 12 is 12 PM, 13..23 are 1..11 PM,
\* the minutes keep two digits, 10, 11 and 12 keep both digits;
\* 13:00:00 gives "1:00 PM" and 09:30:00 gives "9:30 AM".
C11_TwelveHourLabel ==
    last.op = "get_time" /\ last.fail = "none" /\ last.stored.tag = "hms" =>
        /\ ~last.raised
        /\ last.value =
               Str(HourLabel(last.stored.h) \o <<":">>
                     \o <<Digit(last.stored.m \div 10), Digit(last.stored.m % 10)>>
                     \o <<" ">> \o MeridiemLabel(last.stored.h))
        /\ last.stored = Hms(13, 0, 0) =>
               last.value = Str(<<"1", ":", "0", "0", " ", "P", "M">>)
        /\ last.stored = Hms(9, 30, 0) =>
               last.value = Str(<<"9", ":", "3", "0", " ", "A", "M">>)

\* C11's case: the stored time 09:30:00 was looked up and labelled 9:30 AM.
C11_Witness ==
    /\ last.op = "get_time" /\ last.fail = "none"
    /\ last.stored = Hms(9, 30, 0)
    /\ last.value = Str(<<"9", ":", "3", "0", " ", "A", "M">>)

====
